---- MODULE Spec2Model ----
(***************************************************************************)
(* A model of pmr_queue.h: DynamicMemoryResource (a tracking memory        *)
(* resource over an upstream resource) and PmrQueue (a singly linked FIFO  *)
(* queue whose nodes are obtained through a polymorphic allocator).        *)
(***************************************************************************)
EXTENDS Integers, Sequences, FiniteSets, TLC

\* ---------------------------------------------------------------- bounds
\* The number of addresses the upstream resource can hand out.
MaxAddr == 3

\* ------------------------------------------------------------- constants
Null == 0
NodeBytes == 16
NodeAlign == 8
DefaultAlign == 16

Addr == 1..MaxAddr
\* The payloads pushed: the code never inspects a payload, so two
\* distinguishable values tell any two positions of a chain apart.
Values == {1, 2}
Resources == {"mr1", "mr2"}
Queues == {"q1", "q2"}
NoResource == "none"

\* What a direct client of the resource asks for: a default-aligned block
\* and an over-aligned one.
ClientRequests ==
    {[bytes |-> 16, alignment |-> 16], [bytes |-> 64, alignment |-> 64]}

NoBlock == [bytes |-> 0, alignment |-> 0, via |-> NoResource]
NoNode == [constructed |-> FALSE, data |-> 0, next_node |-> Null]

\* The iterator objects of the client.
Its == {"it1", "it2"}

\* An iterator object that is not constructed. Besides current_node an
\* iterator carries the queue its value came from, that queue's fields and
\* nodes as begin() found them, the number of increments applied since and
\* the values passed over.
NoIterator ==
    [live |-> FALSE, current_node |-> Null, owner |-> NoResource,
     steps |-> 0, seen |-> <<>>, found |-> <<>>]

VARIABLES
    active_blocks,   \* resource -> sequence of Block {address, bytes}
    rlive,           \* resource -> constructed and not yet destroyed
    upstream,        \* address -> the block outstanding at parent_resource
    heap,            \* address -> the QueueNode constructed there
    head_node,       \* queue -> address or Null
    tail_node,       \* queue -> address or Null
    node_allocator,  \* queue -> the resource its allocator handle refers to
    element_count,   \* queue -> count
    qlive,           \* queue -> constructed and not yet destroyed
    shadow,          \* queue -> values pushed and not yet popped, oldest first
    held,            \* resource -> addresses allocate returned to a direct
                     \* caller that the caller has not yet passed to deallocate
    last,            \* the last call and what it did
    iters            \* iterator object -> its current_node, with the queue
                     \* it came from and what it has passed over

vars == <<active_blocks, rlive, upstream, heap, head_node, tail_node,
          node_allocator, element_count, qlive, shadow, held, last, iters>>

\* ------------------------------------------------- the upstream resource
\* The memory state a call works on, with the tallies of the call.
CurMem ==
    [active_blocks |-> active_blocks, upstream |-> upstream, faults |-> {},
     up_frees |-> 0, mr_deallocs |-> 0]

FreeAddrs(M) == {a \in Addr : M.upstream[a] = NoBlock}

UpstreamAllocate(M, a, bytes, alignment, via) ==
    [M EXCEPT !.upstream[a] =
        [bytes |-> bytes, alignment |-> alignment, via |-> via]]

UpstreamDeallocate(M, ptr, bytes, alignment) ==
    LET b == M.upstream[ptr]
        f == IF b = NoBlock THEN {"invalid_free"}
             ELSE (IF b.bytes # bytes THEN {"size_mismatch"} ELSE {})
                  \cup (IF b.alignment # alignment
                        THEN {"alignment_mismatch"} ELSE {})
    IN  [M EXCEPT !.upstream[ptr] = NoBlock,
                  !.faults = @ \cup f,
                  !.up_frees = @ + 1]

\* ------------------------------------------------ DynamicMemoryResource
RemoveAt(s, i) == SubSeq(s, 1, i - 1) \o SubSeq(s, i + 1, Len(s))

\* std::find_if: the first block whose address is ptr, 0 when there is none
FindBlock(blocks, ptr) ==
    LET hits == {i \in 1..Len(blocks) : blocks[i].address = ptr}
    IN  IF hits = {} THEN 0
        ELSE CHOOSE i \in hits : \A j \in hits : i <= j

\* A faulty do_allocate: the record is made before the upstream call and
\* stays when that call throws.
do_allocate_record_first(M, r, bytes, alignment, up, record_ok) ==
    IF up = Null
    THEN [mem |-> [M EXCEPT !.active_blocks[r] =
                      Append(@, [address |-> Null, bytes |-> bytes])],
          ptr |-> Null, thrown |-> "upstream_bad_alloc"]
    ELSE LET M1 == UpstreamAllocate(M, up, bytes, alignment, r)
         IN  IF record_ok
             THEN [mem |-> [M1 EXCEPT !.active_blocks[r] =
                               Append(@, [address |-> up, bytes |-> bytes])],
                   ptr |-> up, thrown |-> "none"]
             ELSE [mem |-> UpstreamDeallocate(M1, up, bytes, alignment),
                   ptr |-> Null, thrown |-> "record_bad_alloc"]

\* A faulty do_allocate: no catch block, the block stays with the upstream
\* resource when emplace_back throws.
do_allocate_no_rollback(M, r, bytes, alignment, up, record_ok) ==
    IF up = Null
    THEN [mem |-> M, ptr |-> Null, thrown |-> "upstream_bad_alloc"]
    ELSE LET M1 == UpstreamAllocate(M, up, bytes, alignment, r)
         IN  IF record_ok
             THEN [mem |-> [M1 EXCEPT !.active_blocks[r] =
                               Append(@, [address |-> up, bytes |-> bytes])],
                   ptr |-> up, thrown |-> "none"]
             ELSE [mem |-> M1, ptr |-> Null, thrown |-> "record_bad_alloc"]

\* up: the address parent_resource returns, Null when it throws;
\* record_ok: whether emplace_back succeeds. thrown: the exception that
\* leaves the call, named after the place that throws it.
do_allocate(M, r, bytes, alignment, up, record_ok) ==
    IF up = Null
    THEN [mem |-> M, ptr |-> Null, thrown |-> "upstream_bad_alloc"]
    ELSE LET M1 == UpstreamAllocate(M, up, bytes, alignment, r)
         IN  IF record_ok
             THEN [mem |-> [M1 EXCEPT !.active_blocks[r] =
                               Append(@, [address |-> up, bytes |-> bytes])],
                   ptr |-> up, thrown |-> "none"]
             ELSE [mem |-> UpstreamDeallocate(M1, up, bytes, alignment),
                   ptr |-> Null, thrown |-> "record_bad_alloc"]

\* A faulty do_deallocate: the record is not erased.
do_deallocate_keep_record(M, r, ptr, bytes, alignment) ==
    LET found == FindBlock(M.active_blocks[r], ptr)
        M0 == [M EXCEPT !.mr_deallocs = @ + 1]
    IN  IF found # 0
        THEN UpstreamDeallocate(M0, ptr, bytes, alignment)
        ELSE M0

\* A faulty do_deallocate: the free is forwarded whether or not the
\* address is recorded.
do_deallocate_unchecked(M, r, ptr, bytes, alignment) ==
    LET found == FindBlock(M.active_blocks[r], ptr)
        M0 == UpstreamDeallocate([M EXCEPT !.mr_deallocs = @ + 1], ptr,
                                 bytes, alignment)
    IN  IF found # 0
        THEN [M0 EXCEPT !.active_blocks[r] = RemoveAt(@, found)]
        ELSE M0

do_deallocate(M, r, ptr, bytes, alignment) ==
    LET found == FindBlock(M.active_blocks[r], ptr)
        M0 == [M EXCEPT !.mr_deallocs = @ + 1]
    IN  IF found # 0
        THEN [UpstreamDeallocate(M0, ptr, bytes, alignment)
                 EXCEPT !.active_blocks[r] = RemoveAt(@, found)]
        ELSE M0

RECURSIVE ReleaseAll(_, _)
ReleaseAll(M, blocks) ==
    IF blocks = <<>> THEN M
    ELSE ReleaseAll(
            UpstreamDeallocate(M, Head(blocks).address, Head(blocks).bytes,
                               DefaultAlign),
            Tail(blocks))

\* A faulty destroy_resource: the blocks still recorded are not released.
destroy_resource_leak(M, r) ==
    [M EXCEPT !.active_blocks[r] = <<>>]

\* ~DynamicMemoryResource
destroy_resource(M, r) ==
    [ReleaseAll(M, M.active_blocks[r]) EXCEPT !.active_blocks[r] = <<>>]

\* ------------------------------------------------------------- PmrQueue
\* The state one queue call works on: the queue's fields, the node storage
\* and the memory state, with the tallies of the call.
QState(q) ==
    [head_node |-> head_node[q], tail_node |-> tail_node[q],
     element_count |-> element_count[q], heap |-> heap, mem |-> CurMem,
     destroyed |-> 0, outcome |-> "ok"]

\* QueueNode(Args&&...)
construct_node(element) ==
    [constructed |-> TRUE, data |-> element, next_node |-> Null]

\* A faulty link_node: the new node is linked in front of the head.
link_node_front(Q, new_node) ==
    [Q EXCEPT !.heap[new_node].next_node = Q.head_node,
              !.head_node = new_node,
              !.tail_node = IF Q.tail_node # Null THEN @ ELSE new_node,
              !.element_count = @ + 1]

\* A faulty link_node: the count is not incremented.
link_node_no_count(Q, new_node) ==
    [Q EXCEPT !.heap = IF Q.tail_node # Null
                       THEN [@ EXCEPT ![Q.tail_node].next_node = new_node]
                       ELSE @,
              !.head_node = IF Q.tail_node # Null THEN @ ELSE new_node,
              !.tail_node = new_node]

\* push, once the node is constructed: link it behind the tail
link_node(Q, new_node) ==
    [Q EXCEPT !.heap = IF Q.tail_node # Null
                       THEN [@ EXCEPT ![Q.tail_node].next_node = new_node]
                       ELSE @,
              !.head_node = IF Q.tail_node # Null THEN @ ELSE new_node,
              !.tail_node = new_node,
              !.element_count = @ + 1]

\* A faulty push: the catch block does not deallocate the node storage.
push_no_rollback(Q, alloc, element, ctor_throws, up, record_ok) ==
    LET A == do_allocate(Q.mem, alloc, NodeBytes, NodeAlign, up, record_ok)
        new_node == A.ptr
    IN  IF A.thrown # "none"
        THEN [Q EXCEPT !.mem = A.mem, !.outcome = A.thrown]
        ELSE IF ctor_throws
        THEN [Q EXCEPT !.mem = A.mem, !.outcome = "ctor_throw"]
        ELSE link_node([Q EXCEPT !.mem = A.mem,
                                 !.heap[new_node] = construct_node(element)],
                       new_node)

\* element: the value pushed; ctor_throws: whether constructing it throws;
\* up, record_ok: as for do_allocate
push(Q, alloc, element, ctor_throws, up, record_ok) ==
    LET A == do_allocate(Q.mem, alloc, NodeBytes, NodeAlign, up, record_ok)
        new_node == A.ptr
    IN  IF A.thrown # "none"
        THEN [Q EXCEPT !.mem = A.mem, !.outcome = A.thrown]
        ELSE IF ctor_throws
        THEN [Q EXCEPT !.mem = do_deallocate(A.mem, alloc, new_node,
                                             NodeBytes, NodeAlign),
                       !.outcome = "ctor_throw"]
        ELSE link_node([Q EXCEPT !.mem = A.mem,
                                 !.heap[new_node] = construct_node(element)],
                       new_node)

\* A faulty pop: no early return, an empty queue still deallocates its
\* (null) head and counts down.
pop_no_guard(Q, alloc) ==
    LET old_head == Q.head_node
        new_head == IF old_head = Null THEN Null
                    ELSE Q.heap[old_head].next_node
    IN  [Q EXCEPT !.head_node = new_head,
                  !.tail_node = IF new_head = Null THEN Null ELSE @,
                  !.heap = IF old_head = Null THEN @
                           ELSE [@ EXCEPT ![old_head] = NoNode],
                  !.destroyed = IF old_head = Null THEN @ ELSE @ + 1,
                  !.mem = do_deallocate(@, alloc, old_head,
                                        NodeBytes, NodeAlign),
                  !.element_count = @ - 1]

\* A faulty pop: tail_node is left alone when the last node goes.
pop_keep_tail(Q, alloc) ==
    IF Q.head_node = Null THEN Q
    ELSE LET old_head == Q.head_node
             new_head == Q.heap[old_head].next_node
         IN  [Q EXCEPT !.head_node = new_head,
                       !.heap[old_head] = NoNode,
                       !.destroyed = @ + 1,
                       !.mem = do_deallocate(@, alloc, old_head,
                                             NodeBytes, NodeAlign),
                       !.element_count = @ - 1]

\* A faulty pop: the node's storage is not given back.
pop_leak(Q, alloc) ==
    IF Q.head_node = Null THEN Q
    ELSE LET old_head == Q.head_node
             new_head == Q.heap[old_head].next_node
         IN  [Q EXCEPT !.head_node = new_head,
                       !.tail_node = IF new_head = Null THEN Null ELSE @,
                       !.heap[old_head] = NoNode,
                       !.destroyed = @ + 1,
                       !.element_count = @ - 1]

pop(Q, alloc) ==
    IF Q.head_node = Null THEN Q
    ELSE LET old_head == Q.head_node
             new_head == Q.heap[old_head].next_node
         IN  [Q EXCEPT !.head_node = new_head,
                       !.tail_node = IF new_head = Null THEN Null ELSE @,
                       !.heap[old_head] = NoNode,
                       !.destroyed = @ + 1,
                       !.mem = do_deallocate(@, alloc, old_head,
                                             NodeBytes, NodeAlign),
                       !.element_count = @ - 1]

empty(Q) == Q.head_node = Null

size(Q) == Q.element_count

front(Q) == Q.heap[Q.head_node].data

\* A faulty begin(): the iterator starts at the last node.
begin_at_tail(Q) == Q.tail_node

\* A QueueIterator is its current_node; begin() is at the head, end() is
\* the null iterator.
begin(Q) == Q.head_node

end(Q) == Null

\* A faulty drain: one pop instead of a loop.
clear_elements_once(Q, alloc) == pop(Q, alloc)

\* clear_elements(): while (!empty()) pop()
RECURSIVE clear_elements(_, _)
clear_elements(Q, alloc) ==
    IF empty(Q) THEN Q ELSE clear_elements(pop(Q, alloc), alloc)

\* ---------------------------------------------------------------- state
Init ==
    /\ active_blocks = [r \in Resources |-> <<>>]
    /\ rlive = [r \in Resources |-> TRUE]
    /\ upstream = [a \in Addr |-> NoBlock]
    /\ heap = [a \in Addr |-> NoNode]
    /\ head_node = [q \in Queues |-> Null]
    /\ tail_node = [q \in Queues |-> Null]
    /\ node_allocator \in [Queues -> Resources]
    /\ element_count = [q \in Queues |-> 0]
    /\ qlive = [q \in Queues |-> TRUE]
    /\ shadow = [q \in Queues |-> <<>>]
    /\ held = [r \in Resources |-> {}]
    /\ iters = [i \in Its |-> NoIterator]
    /\ last = [op |-> "init", who |-> NoResource, other |-> NoResource,
               via |-> NoResource, outcome |-> "ok", arg |-> Null,
               up_frees |-> 0, mr_deallocs |-> 0, destroyed |-> 0,
               faults |-> {}]

\* The memory state and the tallies a call leaves behind. No call on a
\* queue or a resource writes to an iterator object.
CommitMem(M, op, who, arg, outcome, destroyed) ==
    /\ active_blocks' = M.active_blocks
    /\ upstream' = M.upstream
    /\ UNCHANGED iters
    /\ last' = [op |-> op, who |-> who, other |-> NoResource,
                via |-> NoResource, arg |-> arg, outcome |-> outcome, up_frees |-> M.up_frees,
                mr_deallocs |-> M.mr_deallocs, destroyed |-> destroyed,
                faults |-> M.faults]

\* The same after a move into queue who from queue other; via is the
\* resource the destination was drained through, if it was drained.
CommitMove(M, op, who, other, via, destroyed) ==
    /\ active_blocks' = M.active_blocks
    /\ upstream' = M.upstream
    /\ UNCHANGED iters
    /\ last' = [op |-> op, who |-> who, other |-> other, via |-> via,
                arg |-> Null, outcome |-> "ok", up_frees |-> M.up_frees,
                mr_deallocs |-> M.mr_deallocs, destroyed |-> destroyed,
                faults |-> M.faults]

\* The fields of queue q, the node storage and the memory state a queue
\* call leaves behind.
Commit(q, Q, op) ==
    /\ head_node' = [head_node EXCEPT ![q] = Q.head_node]
    /\ tail_node' = [tail_node EXCEPT ![q] = Q.tail_node]
    /\ element_count' = [element_count EXCEPT ![q] = Q.element_count]
    /\ heap' = Q.heap
    /\ CommitMem(Q.mem, op, q, Null, Q.outcome, Q.destroyed)

\* The inputs of a call that matter: emplace_back runs only when the
\* upstream resource returned a block, the payload is constructed only when
\* the block was recorded, and its value is stored only when that succeeds.
RecordOutcomes(up) == IF up = Null THEN {TRUE} ELSE BOOLEAN

CtorOutcomes(record_ok) == IF record_ok THEN BOOLEAN ELSE {FALSE}

PushedValues(ctor_throws) == IF ctor_throws THEN {1} ELSE Values

\* ------------------------------------------------- calls on the resource
Allocate(r) ==
    /\ rlive[r]
    /\ \E req \in ClientRequests, up \in FreeAddrs(CurMem) \cup {Null} :
       \E record_ok \in RecordOutcomes(up) :
       \E A \in {do_allocate(CurMem, r, req.bytes, req.alignment, up,
                               record_ok)} :
          /\ CommitMem(A.mem, "allocate", r, Null,
                       IF A.thrown # "none" THEN A.thrown ELSE "ok", 0)
          /\ held' = [held EXCEPT ![r] =
                         IF A.thrown # "none" THEN @ ELSE @ \cup {A.ptr}]
    /\ UNCHANGED <<rlive, heap, head_node, tail_node, node_allocator,
                   element_count, qlive, shadow>>

\* The caller passes the size and alignment it asked for when the block is
\* one this resource handed out; node storage is the queues' to free.
Deallocate(r) ==
    /\ rlive[r]
    /\ \E ptr \in Addr, req \in ClientRequests :
          /\ ~heap[ptr].constructed
          /\ ptr \in held[r] =>
                /\ req.bytes = upstream[ptr].bytes
                /\ req.alignment = upstream[ptr].alignment
          /\ \E M \in {do_deallocate(CurMem, r, ptr, req.bytes,
                                       req.alignment)} :
                CommitMem(M, "deallocate", r, ptr, "ok", 0)
          /\ held' = [held EXCEPT ![r] = @ \ {ptr}]
    /\ UNCHANGED <<rlive, heap, head_node, tail_node, node_allocator,
                   element_count, qlive, shadow>>

\* A resource outlives the queues bound to it.
DestroyResource(r) ==
    /\ rlive[r]
    /\ \A q \in Queues : qlive[q] => node_allocator[q] # r
    /\ rlive' = [rlive EXCEPT ![r] = FALSE]
    /\ \E M \in {destroy_resource(CurMem, r)} :
          CommitMem(M, "destroy_resource", r, Null, "ok", 0)
    /\ held' = [held EXCEPT ![r] = {}]
    /\ UNCHANGED <<heap, head_node, tail_node, node_allocator, element_count,
                   qlive, shadow>>

ConstructResource(r) ==
    /\ ~rlive[r]
    /\ rlive' = [rlive EXCEPT ![r] = TRUE]
    /\ CommitMem([CurMem EXCEPT !.active_blocks[r] = <<>>],
                 "construct_resource", r, Null, "ok", 0)
    /\ UNCHANGED held
    /\ UNCHANGED <<heap, head_node, tail_node, node_allocator, element_count,
                   qlive, shadow>>

\* ---------------------------------------------------- calls on the queue
ConstructQueue(q, r) ==
    /\ ~qlive[q]
    /\ rlive[r]
    /\ qlive' = [qlive EXCEPT ![q] = TRUE]
    /\ node_allocator' = [node_allocator EXCEPT ![q] = r]
    /\ Commit(q, [QState(q) EXCEPT !.head_node = Null, !.tail_node = Null,
                                   !.element_count = 0],
              "construct")
    /\ shadow' = [shadow EXCEPT ![q] = <<>>]
    /\ UNCHANGED <<rlive, held>>

Push(q) ==
    /\ qlive[q]
    /\ \E up \in FreeAddrs(CurMem) \cup {Null} :
       \E record_ok \in RecordOutcomes(up) :
       \E ctor_throws \in CtorOutcomes(record_ok) :
       \E element \in PushedValues(ctor_throws) :
       \E Q \in {push(QState(q), node_allocator[q], element, ctor_throws,
                        up, record_ok)} :
              /\ Commit(q, Q, "push")
              /\ shadow' = [shadow EXCEPT ![q] =
                               IF Q.outcome = "ok" THEN Append(@, element)
                               ELSE @]
    /\ UNCHANGED <<rlive, qlive, node_allocator, held>>

Pop(q) ==
    /\ qlive[q]
    /\ \E Q \in {pop(QState(q), node_allocator[q])} : Commit(q, Q, "pop")
    /\ shadow' = [shadow EXCEPT ![q] = IF @ = <<>> THEN @ ELSE Tail(@)]
    /\ UNCHANGED <<rlive, qlive, node_allocator, held>>

Clear(q) ==
    /\ qlive[q]
    /\ \E Q \in {clear_elements(QState(q), node_allocator[q])} :
          Commit(q, Q, "clear")
    /\ shadow' = [shadow EXCEPT ![q] = <<>>]
    /\ UNCHANGED <<rlive, qlive, node_allocator, held>>

DestroyQueue(q) ==
    /\ qlive[q]
    /\ \E Q \in {clear_elements(QState(q), node_allocator[q])} :
          Commit(q, Q, "destroy")
    /\ qlive' = [qlive EXCEPT ![q] = FALSE]
    /\ node_allocator' = [node_allocator EXCEPT ![q] = NoResource]
    /\ shadow' = [shadow EXCEPT ![q] = <<>>]
    /\ UNCHANGED <<rlive, held>>

\* A faulty move constructor: other.element_count is not reset.
MoveConstruct_keep_count(q, other) ==
    /\ ~qlive[q]
    /\ qlive[other]
    /\ qlive' = [qlive EXCEPT ![q] = TRUE]
    /\ head_node' = [head_node EXCEPT ![q] = head_node[other],
                                      ![other] = Null]
    /\ tail_node' = [tail_node EXCEPT ![q] = tail_node[other],
                                      ![other] = Null]
    /\ node_allocator' = [node_allocator EXCEPT ![q] = node_allocator[other]]
    /\ element_count' = [element_count EXCEPT ![q] = element_count[other]]
    /\ shadow' = [shadow EXCEPT ![q] = shadow[other], ![other] = <<>>]
    /\ CommitMove(CurMem, "move_construct", q, other, NoResource, 0)
    /\ UNCHANGED <<rlive, heap, held>>

\* A faulty move constructor: other keeps its head, tail and count.
MoveConstruct_shared(q, other) ==
    /\ ~qlive[q]
    /\ qlive[other]
    /\ qlive' = [qlive EXCEPT ![q] = TRUE]
    /\ head_node' = [head_node EXCEPT ![q] = head_node[other]]
    /\ tail_node' = [tail_node EXCEPT ![q] = tail_node[other]]
    /\ node_allocator' = [node_allocator EXCEPT ![q] = node_allocator[other]]
    /\ element_count' = [element_count EXCEPT ![q] = element_count[other]]
    /\ shadow' = [shadow EXCEPT ![q] = shadow[other]]
    /\ CommitMove(CurMem, "move_construct", q, other, NoResource, 0)
    /\ UNCHANGED <<rlive, heap, held>>

\* PmrQueue(PmrQueue&& other)
MoveConstruct(q, other) ==
    /\ ~qlive[q]
    /\ qlive[other]
    /\ qlive' = [qlive EXCEPT ![q] = TRUE]
    /\ head_node' = [head_node EXCEPT ![q] = head_node[other],
                                      ![other] = Null]
    /\ tail_node' = [tail_node EXCEPT ![q] = tail_node[other],
                                      ![other] = Null]
    /\ node_allocator' = [node_allocator EXCEPT ![q] = node_allocator[other]]
    /\ element_count' = [element_count EXCEPT ![q] = element_count[other],
                                              ![other] = 0]
    /\ shadow' = [shadow EXCEPT ![q] = shadow[other], ![other] = <<>>]
    /\ CommitMove(CurMem, "move_construct", q, other, NoResource, 0)
    /\ UNCHANGED <<rlive, heap, held>>

\* A faulty drain: the handle is assigned before clear_elements() runs, so
\* the destination's nodes are deallocated through the source's resource.
assign_drain_late(q, other) ==
    clear_elements(QState(q), node_allocator[other])

\* operator=: clear_elements() on the destination, with the handle it has
\* before the assignment
assign_drain(q, other) == clear_elements(QState(q), node_allocator[q])

\* A faulty adoption: the destination keeps its own handle.
keep_allocator(q, other) == node_allocator[q]

\* operator=: node_allocator = other.node_allocator
adopt_allocator(q, other) == node_allocator[other]

\* A faulty move assignment: no test of this != &other.
MoveAssign_no_self_check(q, other) ==
    /\ qlive[q]
    /\ qlive[other]
    /\ \E C \in {assign_drain(q, other)} :
          /\ head_node' = [head_node EXCEPT ![q] = C.head_node,
                                            ![other] = Null]
          /\ tail_node' = [tail_node EXCEPT ![q] = C.tail_node,
                                            ![other] = Null]
          /\ node_allocator' =
                [node_allocator EXCEPT ![q] = adopt_allocator(q, other)]
          /\ element_count' = [element_count EXCEPT ![q] = C.element_count,
                                                    ![other] = 0]
          /\ heap' = C.heap
          /\ shadow' = [shadow EXCEPT ![q] = <<>>]
          /\ CommitMove(C.mem, "move_assign", q, other, node_allocator[q],
                        C.destroyed)
    /\ UNCHANGED <<rlive, qlive, held>>

\* operator=(PmrQueue&& other). The statement node_allocator =
\* other.node_allocator is modelled as the assignment it spells: the handle
\* of the destination refers to the source's resource afterwards.
MoveAssign(q, other) ==
    /\ qlive[q]
    /\ qlive[other]
    /\ IF q # other
       THEN \E C \in {assign_drain(q, other)} :
                /\ head_node' = [head_node EXCEPT ![q] = head_node[other],
                                                  ![other] = Null]
                /\ tail_node' = [tail_node EXCEPT ![q] = tail_node[other],
                                                  ![other] = Null]
                /\ node_allocator' =
                      [node_allocator EXCEPT ![q] = adopt_allocator(q, other)]
                /\ element_count' =
                      [element_count EXCEPT ![q] = element_count[other],
                                            ![other] = 0]
                /\ heap' = C.heap
                /\ shadow' = [shadow EXCEPT ![q] = shadow[other],
                                            ![other] = <<>>]
                /\ CommitMove(C.mem, "move_assign", q, other,
                              node_allocator[q], C.destroyed)
       ELSE /\ CommitMove(CurMem, "move_assign", q, other, NoResource, 0)
            /\ UNCHANGED <<head_node, tail_node, node_allocator,
                           element_count, heap, shadow>>
    /\ UNCHANGED <<rlive, qlive, held>>

\* The queues, over two resources that outlive them.
Next ==
    \/ \E q \in Queues, r \in Resources : ConstructQueue(q, r)
    \/ \E q \in Queues : Push(q)
    \/ \E q \in Queues : Pop(q)
    \/ \E q \in Queues : Clear(q)
    \/ \E q \in Queues : DestroyQueue(q)
    \/ \E q, other \in Queues : MoveConstruct(q, other)
    \/ \E q, other \in Queues : MoveAssign(q, other)

Spec == Init /\ [][Next]_vars

\* The resources under direct clients, no queue constructed.
InitMR ==
    /\ active_blocks = [r \in Resources |-> <<>>]
    /\ rlive = [r \in Resources |-> TRUE]
    /\ upstream = [a \in Addr |-> NoBlock]
    /\ heap = [a \in Addr |-> NoNode]
    /\ head_node = [q \in Queues |-> Null]
    /\ tail_node = [q \in Queues |-> Null]
    /\ node_allocator = [q \in Queues |-> NoResource]
    /\ element_count = [q \in Queues |-> 0]
    /\ qlive = [q \in Queues |-> FALSE]
    /\ shadow = [q \in Queues |-> <<>>]
    /\ held = [r \in Resources |-> {}]
    /\ iters = [i \in Its |-> NoIterator]
    /\ last = [op |-> "init", who |-> NoResource, other |-> NoResource,
               via |-> NoResource, outcome |-> "ok", arg |-> Null,
               up_frees |-> 0, mr_deallocs |-> 0, destroyed |-> 0,
               faults |-> {}]

NextMR ==
    \/ \E r \in Resources : Allocate(r)
    \/ \E r \in Resources : Deallocate(r)
    \/ \E r \in Resources : DestroyResource(r)
    \/ \E r \in Resources : ConstructResource(r)

SpecMR == InitMR /\ [][NextMR]_vars

\* ----------------------------------------------------------- type check
TypeOK ==
    /\ \A r \in Resources :
          \A i \in 1..Len(active_blocks[r]) :
             active_blocks[r][i].address \in Addr
    /\ \A q \in Queues :
          /\ head_node[q] \in Addr \cup {Null}
          /\ tail_node[q] \in Addr \cup {Null}
          /\ element_count[q] \in 0..MaxAddr
          /\ node_allocator[q] \in Resources \cup {NoResource}

\* ------------------------------------------------------------ traversal
\* The nodes met from address a by following next_node, at most fuel of
\* them: begin(), then operator++ until the end iterator.
RECURSIVE Walk(_, _, _)
Walk(h, a, fuel) ==
    IF a = Null \/ fuel = 0 THEN <<>>
    ELSE <<a>> \o Walk(h, h[a].next_node, fuel - 1)

\* One more step than there are addresses: a chain this long has a cycle.
Chain(q) == Walk(heap, head_node[q], MaxAddr + 1)

Contents(q) ==
    LET c == Chain(q) IN [i \in 1..Len(c) |-> heap[c[i]].data]

NoRepeat(s) == \A i, j \in 1..Len(s) : s[i] = s[j] => i = j

\* ------------------------------------------------------------ iterators
\* A faulty step: the successor of the successor.
increment_skip(h, current_node) ==
    IF current_node # Null
    THEN IF h[current_node].next_node # Null
         THEN h[h[current_node].next_node].next_node
         ELSE Null
    ELSE current_node

\* QueueIterator::operator++(): if (current_node) current_node =
\* current_node->next_node
increment(h, current_node) ==
    IF current_node # Null THEN h[current_node].next_node ELSE current_node

\* QueueIterator::operator*()
deref(h, current_node) == h[current_node].data

\* QueueIterator::operator==
equals(x, y) == x.current_node = y.current_node

\* The fields of queue q, the addresses of its nodes, head first, and
\* their values.
Found(q) ==
    LET c == Chain(q)
    IN  <<head_node[q], tail_node[q], element_count[q], c,
          [i \in 1..Len(c) |-> heap[c[i]].data]>>

\* What an iterator call leaves behind: nothing of the queues or the
\* resources is written.
CommitIt ==
    /\ last' = [op |-> "iterator", who |-> NoResource, other |-> NoResource,
                via |-> NoResource, outcome |-> "ok", arg |-> Null,
                up_frees |-> 0, mr_deallocs |-> 0, destroyed |-> 0,
                faults |-> {}]
    /\ UNCHANGED <<active_blocks, rlive, upstream, heap, head_node,
                   tail_node, node_allocator, element_count, qlive, shadow,
                   held>>

NoIterators == \A i \in Its : ~iters[i].live

\* it = q.begin()
Begin(i, q) ==
    /\ qlive[q]
    /\ iters' = [iters EXCEPT ![i] =
                    [live |-> TRUE, current_node |-> begin(QState(q)),
                     owner |-> q, steps |-> 0, seen |-> <<>>,
                     found |-> Found(q)]]
    /\ CommitIt

\* ++it. The value of the node left behind joins seen. The client
\* increments an iterator that equals end() at most once.
Increment(i) ==
    /\ iters[i].live
    /\ iters[i].steps <= element_count[iters[i].owner]
    /\ LET it == iters[i]
           seen == IF it.current_node # Null
                   THEN Append(it.seen, deref(heap, it.current_node))
                   ELSE it.seen
       IN  iters' = [iters EXCEPT ![i] =
                        [it EXCEPT !.current_node =
                                      increment(heap, it.current_node),
                                   !.steps = it.steps + 1,
                                   !.seen = seen]]
    /\ CommitIt

\* j = i, the implicit copy of a QueueIterator
Copy(i, j) ==
    /\ i # j
    /\ iters[i].live
    /\ iters' = [iters EXCEPT ![j] = iters[i]]
    /\ CommitIt

\* The iterator object goes out of scope.
Drop(i) ==
    /\ iters[i].live
    /\ iters' = [iters EXCEPT ![i] = NoIterator]
    /\ CommitIt

\* push and pop invalidate iterators; the client calls them when it holds
\* none.
ItPush(q) == NoIterators /\ Push(q)

ItPop(q) == NoIterators /\ Pop(q)

NextIt ==
    \/ \E q \in Queues : ItPush(q)
    \/ \E q \in Queues : ItPop(q)
    \/ \E i \in Its, q \in Queues : Begin(i, q)
    \/ \E i \in Its : Increment(i)
    \/ \E i, j \in Its : Copy(i, j)
    \/ \E i \in Its : Drop(i)

\* The client of the iterators, its two queues built on one resource as
\* main() builds its queues.
InitIt == Init /\ node_allocator = [q \in Queues |-> "mr1"]

SpecIt == InitIt /\ [][NextIt]_vars

\* ---------------------------------------------------------------- claims
\* C1: FIFO law. The values in a queue's chain, head first, are the values
\* pushed successfully and not yet popped, oldest first; so front() of a
\* non-empty queue is the oldest such value and pop removes exactly it.
C1_FifoLaw ==
    \A q \in Queues :
       qlive[q] =>
          /\ Contents(q) = shadow[q]
          /\ size(QState(q)) = Len(shadow[q])
          /\ shadow[q] # <<>> =>
                /\ ~empty(QState(q))
                /\ front(QState(q)) = Head(shadow[q])

\* Pushes of 1, 2, 1 and a pop: front() is 2, the chain holds [2, 1].
C1_Witness ==
    /\ last.op = "pop"
    /\ last.who = "q1"
    /\ last.destroyed = 1
    /\ shadow["q1"] = <<2, 1>>
    /\ front(QState("q1")) = 2
    /\ Contents("q1") = <<2, 1>>
    /\ size(QState("q1")) = 2

AllEmpty(q) ==
    /\ empty(QState(q))
    /\ size(QState(q)) = 0
    /\ head_node[q] = Null
    /\ tail_node[q] = Null

NoneEmpty(q) ==
    /\ ~empty(QState(q))
    /\ size(QState(q)) # 0
    /\ head_node[q] # Null
    /\ tail_node[q] # Null

\* C2: in every reachable state empty(), size() = 0, head_node absent and
\* tail_node absent are all true or all false of a queue, and all true of
\* a newly constructed one.
C2_EmptyAgrees ==
    /\ \A q \in Queues : qlive[q] => AllEmpty(q) \/ NoneEmpty(q)
    /\ last.op = "init" => \A q \in Queues : AllEmpty(q)
    /\ last.op = "construct" => AllEmpty(last.who)

\* A pop has just taken the last node of one queue while the other queue
\* holds nodes.
C2_Witness ==
    /\ last.op = "pop"
    /\ last.destroyed = 1
    /\ AllEmpty(last.who)
    /\ \E q \in Queues : qlive[q] /\ NoneEmpty(q)

\* C3: size() is the number of nodes reachable from head_node by next_node;
\* the chain has no cycle, its last node is tail_node, and tail_node's
\* next_node is absent.
C3_ChainShape ==
    \A q \in Queues :
       qlive[q] =>
          /\ Len(Chain(q)) = size(QState(q))
          /\ NoRepeat(Chain(q))
          /\ \A i \in 1..Len(Chain(q)) : heap[Chain(q)[i]].constructed
          /\ Chain(q) # <<>> =>
                /\ Chain(q)[Len(Chain(q))] = tail_node[q]
                /\ heap[tail_node[q]].next_node = Null
          /\ Chain(q) = <<>> => tail_node[q] = Null

\* A queue of three nodes, adopted by move assignment.
C3_Witness ==
    /\ last.op = "move_assign"
    /\ Len(Chain(last.who)) = 3
    /\ size(QState(last.who)) = 3

\* The addresses resource r has on record.
Recorded(r) ==
    {active_blocks[r][i].address : i \in 1..Len(active_blocks[r])}

\* C4: when constructing the payload throws during push, the node storage
\* just obtained goes back through the queue's allocator (one deallocate,
\* forwarded upstream) and the queue's head, tail, count and chain and the
\* allocator's recorded blocks are what they were before the call.
C4_CtorFailureRollsBack ==
    [][(last'.op = "push" /\ last'.outcome = "ctor_throw") =>
          /\ UNCHANGED <<head_node, tail_node, element_count, heap,
                         node_allocator, shadow, active_blocks, upstream>>
          /\ last'.mr_deallocs = 1
          /\ last'.up_frees = 1
          /\ last'.faults = {}]_vars

\* A throwing push on a queue of two nodes whose resource records them.
C4_Witness ==
    /\ last.op = "push"
    /\ last.outcome = "ctor_throw"
    /\ size(QState(last.who)) = 2
    /\ Len(active_blocks[node_allocator[last.who]]) >= 2

\* C5: when the upstream resource cannot satisfy a request, the failure
\* leaves push (or allocate) and nothing changes: the queue's head, tail,
\* count and chain are unchanged and no record is added.
C5_ExhaustionChangesNothing ==
    [][(last'.op \in {"push", "allocate"}
        /\ last'.outcome = "upstream_bad_alloc") =>
          /\ UNCHANGED <<head_node, tail_node, element_count, heap,
                         node_allocator, shadow, active_blocks, upstream,
                         held>>
          /\ last'.up_frees = 0
          /\ last'.mr_deallocs = 0]_vars

\* A push that fails with every address handed out, on a queue of two.
C5_Witness ==
    /\ last.op = "push"
    /\ last.outcome = "upstream_bad_alloc"
    /\ size(QState(last.who)) = 2
    /\ \A a \in Addr : upstream[a] # NoBlock

\* C6: when the upstream allocation succeeds and recording it fails, the
\* block goes back to the upstream resource before the failure leaves
\* allocate: the records and the upstream's outstanding blocks are as
\* before the call.
C6_FailedRecordingLeaksNothing ==
    [][last'.outcome = "record_bad_alloc" =>
          /\ UNCHANGED <<active_blocks, upstream, held>>
          /\ last'.up_frees = 1
          /\ last'.faults = {}]_vars

\* A failed recording in a resource that has a block on record.
C6_Witness ==
    /\ last.op = "allocate"
    /\ last.outcome = "record_bad_alloc"
    /\ last.up_frees = 1
    /\ Len(active_blocks[last.who]) >= 1

\* C7: the record collection of a resource holds exactly the addresses
\* allocate returned and deallocate has not yet been given, each once; with
\* every block deallocated it is empty.
C7_RecordsAreOutstanding ==
    \A r \in Resources :
       rlive[r] =>
          /\ Recorded(r) = held[r]
          /\ Len(active_blocks[r]) = Cardinality(held[r])
          /\ held[r] = {} => active_blocks[r] = <<>>

\* The last of a resource's blocks has just been deallocated, while the
\* other resource has two on record.
C7_Witness ==
    /\ last.op = "deallocate"
    /\ last.up_frees = 1
    /\ held[last.who] = {}
    /\ active_blocks[last.who] = <<>>
    /\ \E r \in Resources : Len(active_blocks[r]) = 2

\* C8: every block a resource hands out is released to the upstream
\* resource exactly once: by the matching deallocate, or else by the
\* destructor. No release is of a block the upstream does not hold; a block
\* outstanding upstream is on record in its live resource; deallocate
\* releases the one block; the destructor releases the blocks still held
\* and no other.
C8_ReleasedExactlyOnce ==
    /\ [](/\ "invalid_free" \notin last.faults
          /\ \A a \in Addr :
                upstream[a] # NoBlock =>
                   /\ rlive[upstream[a].via]
                   /\ a \in Recorded(upstream[a].via)
          /\ \A r \in Resources :
                \A a \in Recorded(r) : upstream[a].via = r)
    /\ [][last'.op = "deallocate" /\ last'.arg \in held[last'.who] =>
             /\ last'.up_frees = 1
             /\ upstream'[last'.arg] = NoBlock
             /\ \A a \in Addr \ {last'.arg} : upstream'[a] = upstream[a]]_vars
    /\ [][last'.op = "destroy_resource" =>
             /\ last'.up_frees = Cardinality(held[last'.who])
             /\ \A a \in held[last'.who] : upstream'[a] = NoBlock
             /\ \A a \in Addr \ held[last'.who] :
                   upstream'[a] = upstream[a]]_vars

\* A destructor has released two blocks, after an explicit deallocate or
\* not, and the other resource's block is still outstanding.
C8_Witness ==
    /\ last.op = "destroy_resource"
    /\ last.up_frees = 2
    /\ \E a \in Addr : upstream[a] # NoBlock

\* C9: deallocate of an address that is not on record is a silent no-op:
\* nothing is forwarded upstream, the records are unchanged, the call
\* returns normally.
C9_UnknownDeallocateIgnored ==
    [][(last'.op = "deallocate" /\ last'.arg \notin Recorded(last'.who)) =>
          /\ UNCHANGED <<active_blocks, upstream>>
          /\ last'.up_frees = 0
          /\ last'.faults = {}
          /\ last'.outcome = "ok"]_vars

\* A deallocate through one resource of a block the other resource holds.
C9_Witness ==
    /\ last.op = "deallocate"
    /\ last.up_frees = 0
    /\ upstream[last.arg] # NoBlock
    /\ upstream[last.arg].via # last.who
    /\ last.arg \in held[upstream[last.arg].via]

\* C10: pop on an empty queue is a no-op: head, tail and count stay at the
\* empty state, no payload is destroyed and no deallocate call is made.
C10_PopOnEmptyIsNoOp ==
    [][(last'.op = "pop" /\ shadow[last'.who] = <<>>) =>
          /\ UNCHANGED <<head_node, tail_node, element_count, heap,
                         node_allocator, active_blocks, upstream>>
          /\ head_node'[last'.who] = Null
          /\ tail_node'[last'.who] = Null
          /\ element_count'[last'.who] = 0
          /\ last'.destroyed = 0
          /\ last'.mr_deallocs = 0
          /\ last'.outcome = "ok"]_vars

\* A pop on an empty queue while the other queue holds two nodes.
C10_Witness ==
    /\ last.op = "pop"
    /\ last.destroyed = 0
    /\ AllEmpty(last.who)
    /\ \E q \in Queues : size(QState(q)) = 2

Nodes(q) == {Chain(q)[i] : i \in 1..Len(Chain(q))}

\* C11: after a move of queue a into queue b (move construction, or move
\* assignment from another queue), a is empty (size 0, begin() = end(),
\* head and tail absent) and b holds a's prior nodes and values in the same
\* order, with a's prior size; the move allocates no block and frees none
\* of a's nodes.
C11_MoveTransfers ==
    [][\A a, b \in Queues :
          (/\ last'.op \in {"move_construct", "move_assign"}
           /\ last'.who = b
           /\ last'.other = a
           /\ a # b) =>
             /\ AllEmpty(a)'
             /\ begin(QState(a))' = end(QState(a))'
             /\ Chain(b)' = Chain(a)
             /\ Contents(b)' = Contents(a)
             /\ Contents(b)' = shadow[a]
             /\ size(QState(b))' = size(QState(a))
             /\ \A n \in Nodes(a) :
                   /\ heap'[n] = heap[n]
                   /\ upstream'[n] = upstream[n]
                   /\ n \in Recorded(node_allocator[a])'
             /\ \A n \in Addr :
                   upstream[n] = NoBlock => upstream'[n] = NoBlock]_vars

\* A move assignment has put two nodes into a queue that held one.
C11_Witness ==
    /\ last.op = "move_assign"
    /\ last.other # last.who
    /\ last.destroyed = 1
    /\ Contents(last.who) = <<1, 2>>
    /\ AllEmpty(last.other)

Traversed(i) ==
    LET it == iters[i]
        q == it.owner
        at_end == it.current_node = end(QState(q))
        values == Contents(q)
    IN  it.live =>
           /\ Len(it.seen) <= size(QState(q))
           /\ it.seen = SubSeq(values, 1, Len(it.seen))
           /\ it.seen = SubSeq(shadow[q], 1, Len(it.seen))
           /\ at_end <=> (Len(it.seen) = size(QState(q)))
           /\ \A j \in Its :
                 (/\ iters[j].live
                  /\ iters[j].owner = q
                  /\ iters[j].current_node = end(QState(q))
                  /\ at_end) =>
                    iters[j].seen = it.seen
           /\ it.found = Found(q)

\* C13: iteration is complete, ordered and non-destructive. From begin(),
\* incrementing until the iterator equals end() passes over exactly size()
\* values in front-to-back, insertion order; the queue's head, tail, count
\* and chain stay as begin() found them; two full traversals with no
\* mutation in between pass over the same sequence.
C13_IterationComplete == \A i \in Its : Traversed(i)

\* Both iterators have run from begin() to end() over a queue of two
\* different values.
C13_Witness ==
    /\ \A i \in Its :
          /\ iters[i].live
          /\ iters[i].steps = 2
          /\ iters[i].owner = "q1"
          /\ iters[i].current_node = end(QState("q1"))
          /\ iters[i].seen = <<2, 1>>
    /\ size(QState("q1")) = 2

\* C14: clear() and ~PmrQueue() return with the queue empty (size 0, head
\* and tail absent); each node the queue held has had its payload
\* destroyed and its block deallocated once through the queue's allocator
\* and released upstream, and none of them remains on record there.
C14_DrainReturnsEveryBlock ==
    [][\A q \in Queues : \A r \in Resources :
          (/\ last'.op \in {"clear", "destroy"}
           /\ last'.who = q
           /\ r = node_allocator[q]) =>
             /\ AllEmpty(q)'
             /\ Chain(q)' = <<>>
             /\ last'.destroyed = size(QState(q))
             /\ last'.mr_deallocs = size(QState(q))
             /\ last'.up_frees = size(QState(q))
             /\ last'.faults = {}
             /\ \A n \in Nodes(q) :
                   /\ heap'[n] = NoNode
                   /\ upstream'[n] = NoBlock
             /\ Recorded(r)' = Recorded(r) \ Nodes(q)
             /\ Len(active_blocks'[r]) =
                   Len(active_blocks[r]) - size(QState(q))]_vars

\* A queue of three nodes has been destroyed.
C14_Witness ==
    /\ last.op = "destroy"
    /\ last.destroyed = MaxAddr
    /\ ~qlive[last.who]
    /\ \A a \in Addr : upstream[a] = NoBlock

\* The queue state P is the empty queue state Q over again: no head, no
\* tail, count 0, the node storage and the records and outstanding blocks
\* of every resource as in Q.
BackToEmpty(P, Q) ==
    /\ P.head_node = Null
    /\ P.tail_node = Null
    /\ P.element_count = 0
    /\ empty(P)
    /\ Walk(P.heap, begin(P), MaxAddr + 1) = <<>>
    /\ P.heap = Q.heap
    /\ P.mem.active_blocks = Q.mem.active_blocks
    /\ P.mem.upstream = Q.mem.upstream
    /\ P.mem.faults = {}

\* push(element) immediately followed by pop(), the push being given the
\* block up.
PushPop(Q, alloc, element, up) ==
    pop(push(Q, alloc, element, FALSE, up, TRUE), alloc)

\* C15: round trip to empty. On an empty queue, a push immediately
\* followed by a pop, and the same again, whatever the values and whatever
\* blocks the upstream resource hands out, leaves the queue in the empty
\* state (count 0, no head, no tail, no chain) and every resource with the
\* records it had before.
C15_RoundTripToEmpty ==
    \A q \in Queues :
       (qlive[q] /\ empty(QState(q))) =>
          \A v1 \in Values, up1 \in FreeAddrs(CurMem) :
             \A P1 \in {PushPop(QState(q), node_allocator[q], v1, up1)} :
                /\ BackToEmpty(P1, QState(q))
                /\ \A v2 \in Values, up2 \in FreeAddrs(P1.mem) :
                      BackToEmpty(PushPop(P1, node_allocator[q], v2, up2),
                                  QState(q))

\* A queue is empty again after a pop while the other queue keeps two
\* nodes on record in the same resource.
C15_Witness ==
    /\ last.op = "pop"
    /\ last.destroyed = 1
    /\ AllEmpty(last.who)
    /\ \E o \in Queues :
          /\ o # last.who
          /\ node_allocator[o] = node_allocator[last.who]
          /\ size(QState(o)) = 2
          /\ Len(active_blocks[node_allocator[o]]) = 2

\* The owners of node n: the queues whose head_node it is and the nodes
\* whose next_node it is.
OwningQueues(n) == {q \in Queues : qlive[q] /\ head_node[q] = n}

OwningNodes(n) ==
    {m \in Addr : heap[m].constructed /\ heap[m].next_node = n}

\* Every constructed node is in the chain of exactly one queue and has
\* exactly one owner.
ExclusiveNodes ==
    \A n \in Addr :
       heap[n].constructed =>
          /\ Cardinality({q \in Queues : qlive[q] /\ n \in Nodes(q)}) = 1
          /\ Cardinality(OwningQueues(n)) + Cardinality(OwningNodes(n)) = 1

\* C16: exclusive node ownership. In every reachable state each node is
\* reachable from the head of exactly one queue and is owned by exactly one
\* thing, that queue for the head and the preceding node otherwise; after a
\* move the two queues share no node; and a push, pop or clear on one queue
\* changes neither the chain nor the contents of another.
C16_ExclusiveOwnership ==
    /\ []ExclusiveNodes
    /\ [][\A q, o \in Queues :
             /\ (/\ last'.op \in {"push", "pop", "clear"}
                 /\ last'.who = q
                 /\ o # q) =>
                   /\ Chain(o)' = Chain(o)
                   /\ Contents(o)' = Contents(o)
                   /\ size(QState(o))' = size(QState(o))
             /\ (/\ last'.op \in {"move_construct", "move_assign"}
                 /\ last'.who = q
                 /\ last'.other = o
                 /\ o # q) =>
                   (Nodes(q) \cap Nodes(o))' = {}]_vars

\* A queue built by move construction holds the two nodes of its source,
\* which holds none.
C16_Witness ==
    /\ last.op = "move_construct"
    /\ Cardinality(Nodes(last.who)) = 2
    /\ Nodes(last.other) = {}
    /\ qlive[last.other]
    /\ \A n \in Nodes(last.who) : OwningQueues(n) \subseteq {last.who}

\* Where an iterator of queue q stands after steps increments from
\* begin(): on the node that comes after steps nodes, or nowhere once the
\* increments are as many as the nodes.
Position(q, steps) ==
    LET c == Chain(q)
    IN  IF steps < Len(c)
        THEN [queue |-> q, index |-> steps + 1, node |-> c[steps + 1]]
        ELSE [queue |-> NoResource, index |-> 0, node |-> Null]

\* C17: forward iterator stepping and equality. Each increment of an
\* iterator on a node moves it to that node's successor, or to the end
\* iterator from the last node; an increment of the end iterator leaves
\* it the end iterator; two iterators are equal exactly when they are on
\* the same node or are both the end iterator; increments and copies leave
\* the queue as begin() found it.
C17_IteratorStepping ==
    LET at == [i \in Its |->
                  IF iters[i].live
                  THEN Position(iters[i].owner, iters[i].steps)
                  ELSE [queue |-> NoResource, index |-> 0, node |-> Null]]
    IN  \A i \in Its :
           iters[i].live =>
              /\ iters[i].current_node = at[i].node
              /\ (iters[i].current_node = end(QState(iters[i].owner)))
                    <=> (iters[i].steps >= size(QState(iters[i].owner)))
              /\ \A j \in Its :
                    iters[j].live =>
                       (equals(iters[i], iters[j])
                           <=> (/\ at[i].queue = at[j].queue
                                /\ at[i].index = at[j].index))
              /\ iters[i].found = Found(iters[i].owner)

\* One iterator was incremented once more after it reached the end of a
\* queue of two nodes, the other stands on the second node of that queue.
C17_Witness ==
    /\ iters["it1"].live
    /\ iters["it2"].live
    /\ iters["it1"].owner = iters["it2"].owner
    /\ size(QState(iters["it1"].owner)) = 2
    /\ iters["it1"].steps = 3
    /\ iters["it1"].current_node = Null
    /\ iters["it2"].steps = 1
    /\ iters["it2"].current_node = tail_node[iters["it2"].owner]
    /\ ~equals(iters["it1"], iters["it2"])

\* The queues whose allocator handle refers to resource r.
BoundTo(r) == {q \in Queues : qlive[q] /\ node_allocator[q] = r}

RECURSIVE SizeSum(_)
SizeSum(S) ==
    IF S = {} THEN 0
    ELSE LET q == CHOOSE x \in S : TRUE
         IN  size(QState(q)) + SizeSum(S \ {q})

\* C18: with the resources used by queues only, the number of blocks a
\* resource has on record is the sum of size() over the queues whose
\* handle refers to it, the blocks on record are those queues' nodes, each
\* node was allocated through the resource its queue's handle refers to,
\* and every deallocation a call made found its block on record and was
\* forwarded upstream (a push whose recording failed forwards the one
\* release of its own rollback besides).
C18_RecordsMatchQueues ==
    /\ \A r \in Resources :
          /\ Len(active_blocks[r]) = SizeSum(BoundTo(r))
          /\ Recorded(r) = UNION {Nodes(q) : q \in BoundTo(r)}
    /\ \A q \in Queues :
          qlive[q] =>
             \A n \in Nodes(q) :
                /\ upstream[n].via = node_allocator[q]
                /\ upstream[n].bytes = NodeBytes
    /\ last.up_frees =
          last.mr_deallocs
             + (IF last.outcome = "record_bad_alloc" THEN 1 ELSE 0)
    /\ last.faults = {}

\* A queue bound to one resource drained its two nodes there and adopted a
\* node and the handle of a queue bound to the other resource.
C18_Witness ==
    /\ last.op = "move_assign"
    /\ last.via # NoResource
    /\ last.via # node_allocator[last.who]
    /\ last.mr_deallocs = 2
    /\ size(QState(last.who)) = 1
    /\ BoundTo(node_allocator[last.who]) = Queues
    /\ Len(active_blocks[node_allocator[last.who]]) = 1

\* C19: every release a resource forwards to the upstream resource, from
\* a deallocate given the block's own size and alignment or from the
\* destructor, carries the size and the alignment the block was allocated
\* with upstream.
C19_ReleasesCarryOriginal ==
    /\ "size_mismatch" \notin last.faults
    /\ "alignment_mismatch" \notin last.faults

====
